---------------------------- MODULE Spec2Model ----------------------------
(***************************************************************************)
(* Model of lambda/index.py: a FastAPI application with GET /health and    *)
(* POST /chat, a module-level Bedrock client handle, and the standalone    *)
(* entry point run_with_ngrok.                                             *)
(*                                                                         *)
(* Scheduling.  Both endpoints are "async def" coroutines without a single *)
(* await, served by one event loop (uvicorn.run, one process).  A handler  *)
(* therefore runs from its first to its last statement without any other   *)
(* handler interleaving, and the synchronous bedrock_client.invoke_model   *)
(* call keeps the event-loop thread until the provider answers.  When the  *)
(* handler has returned or raised, the framework serialises and writes the *)
(* response in the same turn of the loop, which takes the next request     *)
(* only afterwards.  The variable running names the request that holds the *)
(* loop, from the start of its handler to the writing of its response.     *)
(*                                                                         *)
(* Encoding.  Python None is the string PyNone where a string is expected, *)
(* and NoClient where a client handle is expected.  A client handle is the *)
(* ordinal of the boto3.client call that built it.  Decoded JSON values    *)
(* are tagged records (JNull, JStr, JList, JDict).  A Python dict with     *)
(* string keys is a TLA+ record: "k in d" is k \in DOMAIN d.               *)
(***************************************************************************)
EXTENDS Integers, Sequences, FiniteSets, TLC

(* ------------------------------ bounds -------------------------------- *)

\* Number of connections the server handles at the same time.
MaxReq == 2

\* Longest conversationHistory a request carries.
MaxHist == 2

(* --------------------------- program constants ------------------------- *)

PyNone == "<None>"

\* bedrock_client = None
NoClient == 0

\* MODEL_ID = os.environ.get("MODEL_ID", "us.amazon.nova-lite-v1:0")
MODEL_ID == "us.amazon.nova-lite-v1:0"

\* The inferenceConfig block of the payload; 0.7 and 0.9 as fractions.
InferenceConfig ==
    [maxTokens |-> 512,
     stopSequences |-> <<>>,
     temperature |-> [num |-> 7, den |-> 10],
     topP |-> [num |-> 9, den |-> 10]]

(* ------------------------------- inputs -------------------------------- *)

Slots == 1..MaxReq

\* Entries of conversationHistory (List[Dict[str, Any]]): two well-formed
\* turns and a dict without the "role" key, which the request model accepts.
Entries ==
    { [role |-> "user", content |-> "a"],
      [role |-> "assistant", content |-> "b"],
      [content |-> "a"] }

Histories == UNION { [1..n -> Entries] : n \in 0..MaxHist }

\* Bodies of POST /chat: message may be the empty string.
ChatRequest == [message : {"c", ""}, conversationHistory : Histories]

\* Values of the NGROK_TOKEN environment variable.
Tokens == {PyNone, "", "tok"}

(* ---------------------------- decoded JSON ----------------------------- *)

JNull == [t |-> "null"]
JStr(s) == [t |-> "str", s |-> s]
JList(q) == [t |-> "list", items |-> q]
JDict(f) == [t |-> "dict", items |-> f]
EmptyDict == JDict(<<>>)

\* The value standing for "this expression raised AttributeError".
AttributeError == [t |-> "raise", exc |-> "AttributeError"]

\* A provider body whose content list is c.
BodyWithContent(c) ==
    JDict([output |-> JDict([message |-> JDict([content |-> c])])])

\* What json.loads(resp["body"].read()) can yield.
Bodies ==
    { BodyWithContent(JList(<<JDict([text |-> JStr("d")])>>)),
      BodyWithContent(JList(<<JDict([text |-> JStr("")])>>)),
      BodyWithContent(JList(<<EmptyDict>>)),
      BodyWithContent(JList(<<JStr("d")>>)),
      BodyWithContent(JList(<<>>)),
      BodyWithContent(JStr("d")),
      JDict([output |-> JDict([message |-> EmptyDict])]),
      JDict([output |-> EmptyDict]),
      JDict([output |-> JNull]),
      EmptyDict,
      JList(<<>>) }

\* Outcomes of the provider call of lines 93-98: a decoded body, a
\* botocore ClientError, or an exception that is not a ClientError
\* (a connection failure, a body that is not JSON).
Replies ==
    [kind : {"body"}, body : Bodies]
    \cup [kind : {"ClientError"}, desc : {"AccessDeniedException"}]
    \cup [kind : {"EndpointConnectionError", "JSONDecodeError"},
          desc : {"failed"}]

NoReply == [kind |-> "none"]
NoPayload == [none |-> TRUE]
NoResponse == [status |-> 0]

(* -------------------------- pure parts of chat ------------------------- *)

\* dict.get(k, default); on a value that is no dict, AttributeError.
DictGet(d, k, default) ==
    IF d.t = "raise" THEN d
    ELSE IF d.t # "dict" THEN AttributeError
    ELSE IF k \in DOMAIN d.items THEN d.items[k]
    ELSE default

\* Python truth value of a decoded JSON value.
Truthy(v) ==
    CASE v.t = "null" -> FALSE
      [] v.t = "str"  -> v.s # ""
      [] v.t = "list" -> Len(v.items) > 0
      [] v.t = "dict" -> DOMAIN v.items # {}

\* out = body.get("output", {}).get("message", {}).get("content")
ExtractContent(body) ==
    DictGet(DictGet(DictGet(body, "output", EmptyDict),
                    "message", EmptyDict),
            "content", JNull)

\* if not out or not isinstance(out, list) or not out[0].get("text"):
\* "invalid" when the condition is true, "ok" when it is false, "raise"
\* when evaluating it raised.
Validate(out) ==
    IF out.t = "raise" THEN "raise"
    ELSE IF ~Truthy(out) THEN "invalid"
    ELSE IF out.t # "list" THEN "invalid"
    ELSE LET text == DictGet(out.items[1], "text", JNull)
         IN  IF text.t = "raise" THEN "raise"
             ELSE IF ~Truthy(text) THEN "invalid"
             ELSE "ok"

\* assistant_text = out[0]["text"]
AssistantText(out) == out.items[1].items["text"].s

\* messages = req.conversationHistory.copy(); messages.append({user turn})
UserTurn(r) ==
    Append(r.conversationHistory, [role |-> "user", content |-> r.message])

\* msg["role"] and msg["content"] raise KeyError on a dict without the key.
HasKeys(msg) == "role" \in DOMAIN msg /\ "content" \in DOMAIN msg

\* The loop of lines 73-79 raises KeyError.
PayloadRaises(msgs) == \E i \in 1..Len(msgs) : ~HasKeys(msgs[i])

\* BedrockMessages with every role written as "user".
BedrockMessagesUserOnly(msgs) ==
    [i \in 1..Len(msgs) |->
        [role |-> "user", content |-> <<[text |-> msgs[i].content]>>]]

\* bedrock_messages: one entry per message, the text wrapped in a list.
BedrockMessages(msgs) ==
    [i \in 1..Len(msgs) |->
        [role |-> msgs[i].role, content |-> <<[text |-> msgs[i].content]>>]]

\* payload = {"messages": bedrock_messages, "inferenceConfig": {...}}
Payload(msgs) ==
    [messages |-> BedrockMessages(msgs), inferenceConfig |-> InferenceConfig]

\* raise HTTPException(status_code=..., detail=...)
HTTPException(status, detail) ==
    [status |-> status, body |-> [detail |-> detail]]

\* An exception that leaves the handler uncaught: the framework answers
\* 500 with a fixed plain-text body.
InternalServerError ==
    [status |-> 500, body |-> [text |-> "Internal Server Error"]]

\* The provider call returned a body that passes lines 103-105.
ReplyOk(rep) ==
    rep.kind = "body" /\ Validate(ExtractContent(rep.body)) = "ok"

\* AppendAssistant with the append left out.
AppendAssistantDropped(msgs, text) == msgs

\* messages.append({"role": "assistant", "content": assistant_text})
AppendAssistant(msgs, text) ==
    Append(msgs, [role |-> "assistant", content |-> text])

\* The local list messages when the handler ends: extended by line 108
\* when the handler gets that far, as the provider call left it otherwise.
MessagesAfter(msgs, rep) ==
    IF ReplyOk(rep)
    THEN AppendAssistant(msgs, AssistantText(ExtractContent(rep.body)))
    ELSE msgs

\* return {"success": True, "response": ..., "conversationHistory": messages}
ChatSuccess(msgs, text) ==
    [status |-> 200,
     body |-> [success |-> TRUE,
               response |-> text,
               conversationHistory |-> msgs]]

\* Lines 98-114: the response, given the outcome of the provider call and
\* the list messages as the handler leaves it.
ChatOutcome(msgs, rep) ==
    IF rep.kind = "ClientError"
    THEN HTTPException(502, "Bedrock invocation failed: " \o rep.desc)
    ELSE IF rep.kind # "body" THEN InternalServerError
    ELSE LET out == ExtractContent(rep.body)
             v == Validate(out)
         IN  CASE v = "raise" -> InternalServerError
               [] v = "invalid" ->
                      HTTPException(502, "Invalid response from model")
               [] v = "ok" -> ChatSuccess(msgs, AssistantText(out))

\* HealthModel with the test inverted.
HealthModelInverted(client) == IF client = NoClient THEN MODEL_ID ELSE PyNone

\* MODEL_ID if bedrock_client else None
HealthModel(client) == IF client # NoClient THEN MODEL_ID ELSE PyNone

\* return {"status": "ok", "model": ...}
HealthResponse(client) ==
    [status |-> 200, body |-> [status |-> "ok", model |-> HealthModel(client)]]

\* The guard of the lazy initialisation left out.
NeedsClientAlways(client) == TRUE

\* if bedrock_client is None:
NeedsClient(client) == client = NoClient

\* if not ngrok_token:
TokenMissing(token) == token = PyNone \/ token = ""

(* -------------------------------- state -------------------------------- *)

VARIABLES
    entry,          \* "main": run as a script; "asgi": app served by a host
    ngrok_token,    \* run_with_ngrok's local variable ngrok_token
    proc,           \* position of the process
    tunnel,         \* ngrok.connect(port) has opened the public URL
    listening,      \* the HTTP listener on the port is started
    bedrock_client, \* the module-level client handle
    constructed,    \* number of boto3.client calls made so far
    running,        \* request that holds the event loop, or 0
    pc,             \* per connection: "free", "queued", "calling", "done"
    kind,           \* per connection: "health" or "chat"
    body,           \* per connection: chat's argument req
    messages,       \* per connection: chat's local variable messages
    payload,        \* per connection: the payload given to invoke_model
    invoked,        \* per connection: handles used by its invoke_model calls
    reply,          \* per connection: the outcome of its provider call
    resp,           \* per connection: the HTTP response
    lastHealth,     \* model field of the latest /health response
    sent            \* status codes of the /chat responses written so far

vars ==
    <<entry, ngrok_token, proc, tunnel, listening, bedrock_client,
      constructed, running, pc, kind, body, messages, payload, invoked,
      reply, resp, lastHealth, sent>>

procVars == <<entry, ngrok_token, proc, tunnel, listening>>

NoBody == [none |-> TRUE]
NoHealth == "<no /health yet>"
NotRead == "<not read>"

Init ==
    /\ entry \in {"main", "asgi"}
    /\ ngrok_token = NotRead
    /\ proc = IF entry = "main" THEN "main" ELSE "lifespan"
    /\ tunnel = FALSE
    /\ listening = (entry = "asgi")
    /\ bedrock_client = NoClient
    /\ constructed = 0
    /\ running = 0
    /\ pc = [s \in Slots |-> "free"]
    /\ kind = [s \in Slots |-> "health"]
    /\ body = [s \in Slots |-> NoBody]
    /\ messages = [s \in Slots |-> <<>>]
    /\ payload = [s \in Slots |-> NoPayload]
    /\ invoked = [s \in Slots |-> <<>>]
    /\ reply = [s \in Slots |-> NoReply]
    /\ resp = [s \in Slots |-> NoResponse]
    /\ lastHealth = NoHealth
    /\ sent = {}

(* ------------------------------- actions ------------------------------- *)

\* run_with_ngrok(8000), called when the module is run as a script; token
\* is the value of the NGROK_TOKEN environment variable.
RunWithNgrok(token) ==
    /\ proc = "main"
    /\ ngrok_token' = token
    /\ IF TokenMissing(token)
       THEN /\ proc' = "returned"
            /\ UNCHANGED <<tunnel, listening>>
       ELSE /\ tunnel' = TRUE
            /\ listening' = TRUE
            /\ proc' = "lifespan"
    /\ UNCHANGED <<entry, bedrock_client, constructed, running, pc, kind,
                   body, messages, payload, invoked, reply, resp,
                   lastHealth, sent>>

\* startup_event, run by the server before it serves requests.
StartupEvent ==
    /\ proc = "lifespan"
    /\ IF NeedsClient(bedrock_client)
       THEN /\ constructed' = constructed + 1
            /\ bedrock_client' = constructed + 1
       ELSE UNCHANGED <<bedrock_client, constructed>>
    /\ proc' = "serving"
    /\ UNCHANGED <<entry, ngrok_token, tunnel, listening, running, pc,
                   kind, body, messages, payload, invoked, reply, resp,
                   lastHealth, sent>>

\* A host that imports app and sends no startup event ("in case
\* startup_event has not run", line 64).
LifespanOff ==
    /\ proc = "lifespan"
    /\ entry = "asgi"
    /\ proc' = "serving"
    /\ UNCHANGED <<entry, ngrok_token, tunnel, listening, bedrock_client,
                   constructed, running, pc, kind, body, messages,
                   payload, invoked, reply, resp, lastHealth, sent>>

\* A request for /health or /chat reaches the server on connection s.
Arrive(s, k) ==
    /\ proc = "serving"
    /\ pc[s] = "free"
    /\ pc' = [pc EXCEPT ![s] = "queued"]
    /\ kind' = [kind EXCEPT ![s] = k]
    /\ UNCHANGED <<procVars, bedrock_client, constructed, running, body,
                   messages, payload, invoked, reply, resp, lastHealth,
                   sent>>

\* GET /health: the whole handler.
Health(s) ==
    /\ running = 0
    /\ pc[s] = "queued"
    /\ kind[s] = "health"
    /\ running' = s
    /\ resp' = [resp EXCEPT ![s] = HealthResponse(bedrock_client)]
    /\ lastHealth' = HealthModel(bedrock_client)
    /\ pc' = [pc EXCEPT ![s] = "done"]
    /\ UNCHANGED <<procVars, bedrock_client, constructed, kind, body,
                   messages, payload, invoked, reply, sent>>

\* ChatBegin with a lazy initialisation that builds the client and then
\* gives the request up.
ChatBeginLazyFails(s, r) ==
    /\ running = 0
    /\ pc[s] = "queued"
    /\ kind[s] = "chat"
    /\ running' = s
    /\ body' = [body EXCEPT ![s] = r]
    /\ messages' = [messages EXCEPT ![s] = UserTurn(r)]
    /\ IF NeedsClient(bedrock_client)
       THEN /\ constructed' = constructed + 1
            /\ bedrock_client' = constructed + 1
            /\ resp' = [resp EXCEPT ![s] = InternalServerError]
            /\ pc' = [pc EXCEPT ![s] = "done"]
            /\ UNCHANGED <<payload, invoked>>
       ELSE /\ UNCHANGED <<bedrock_client, constructed>>
            /\ IF PayloadRaises(messages'[s])
               THEN /\ resp' = [resp EXCEPT ![s] = InternalServerError]
                    /\ pc' = [pc EXCEPT ![s] = "done"]
                    /\ UNCHANGED <<payload, invoked>>
               ELSE /\ payload' = [payload EXCEPT
                                      ![s] = Payload(messages'[s])]
                    /\ invoked' = [invoked EXCEPT
                                      ![s] = Append(@, bedrock_client')]
                    /\ pc' = [pc EXCEPT ![s] = "calling"]
                    /\ UNCHANGED resp
    /\ UNCHANGED <<procVars, kind, reply, lastHealth, sent>>

\* POST /chat with the body r, lines 60-97: up to the call of invoke_model,
\* which keeps the event loop until the provider has answered.
ChatBegin(s, r) ==
    /\ running = 0
    /\ pc[s] = "queued"
    /\ kind[s] = "chat"
    /\ running' = s
    /\ body' = [body EXCEPT ![s] = r]
    /\ IF NeedsClient(bedrock_client)
       THEN /\ constructed' = constructed + 1
            /\ bedrock_client' = constructed + 1
       ELSE UNCHANGED <<bedrock_client, constructed>>
    /\ messages' = [messages EXCEPT ![s] = UserTurn(r)]
    /\ IF PayloadRaises(messages'[s])
       THEN /\ resp' = [resp EXCEPT ![s] = InternalServerError]
            /\ pc' = [pc EXCEPT ![s] = "done"]
            /\ UNCHANGED <<payload, invoked>>
       ELSE /\ payload' = [payload EXCEPT ![s] = Payload(messages'[s])]
            /\ invoked' = [invoked EXCEPT
                              ![s] = Append(@, bedrock_client')]
            /\ pc' = [pc EXCEPT ![s] = "calling"]
            /\ UNCHANGED resp
    /\ UNCHANGED <<procVars, kind, reply, lastHealth, sent>>

\* InvokeModelReturns with a failed provider call tried again.
InvokeModelRetries(s, rep) ==
    /\ pc[s] = "calling"
    /\ running = s
    /\ Len(invoked[s]) <= MaxReq
    /\ IF ReplyOk(rep)
       THEN /\ reply' = [reply EXCEPT ![s] = rep]
            /\ messages' = [messages EXCEPT ![s] = MessagesAfter(@, rep)]
            /\ resp' = [resp EXCEPT ![s] = ChatOutcome(messages'[s], rep)]
            /\ pc' = [pc EXCEPT ![s] = "done"]
            /\ UNCHANGED invoked
       ELSE /\ invoked' = [invoked EXCEPT ![s] = Append(@, bedrock_client)]
            /\ UNCHANGED <<reply, messages, resp, pc>>
    /\ UNCHANGED <<procVars, bedrock_client, constructed, running, kind,
                   body, payload, lastHealth, sent>>

\* POST /chat, lines 93-114: invoke_model returns or raises, and the
\* handler runs to its end.
InvokeModelReturns(s, rep) ==
    /\ pc[s] = "calling"
    /\ running = s
    /\ reply' = [reply EXCEPT ![s] = rep]
    /\ messages' = [messages EXCEPT ![s] = MessagesAfter(@, rep)]
    /\ resp' = [resp EXCEPT ![s] = ChatOutcome(messages'[s], rep)]
    /\ pc' = [pc EXCEPT ![s] = "done"]
    /\ UNCHANGED <<procVars, bedrock_client, constructed, running, kind,
                   body, payload, invoked, lastHealth, sent>>

\* The response is written to the connection: the request's locals die
\* and the event loop is free for the next request.
Deliver(s) ==
    /\ pc[s] = "done"
    /\ running = s
    /\ running' = 0
    /\ sent' = IF kind[s] = "chat" THEN sent \cup {resp[s].status} ELSE sent
    /\ pc' = [pc EXCEPT ![s] = "free"]
    /\ kind' = [kind EXCEPT ![s] = "health"]
    /\ body' = [body EXCEPT ![s] = NoBody]
    /\ messages' = [messages EXCEPT ![s] = <<>>]
    /\ payload' = [payload EXCEPT ![s] = NoPayload]
    /\ invoked' = [invoked EXCEPT ![s] = <<>>]
    /\ reply' = [reply EXCEPT ![s] = NoReply]
    /\ resp' = [resp EXCEPT ![s] = NoResponse]
    /\ UNCHANGED <<procVars, bedrock_client, constructed, lastHealth>>

Next ==
    \/ \E token \in Tokens : RunWithNgrok(token)
    \/ StartupEvent
    \/ LifespanOff
    \/ \E s \in Slots, k \in {"health", "chat"} : Arrive(s, k)
    \/ \E s \in Slots : Health(s)
    \/ \E s \in Slots, r \in ChatRequest : ChatBegin(s, r)
    \/ \E s \in Slots, rep \in Replies : InvokeModelReturns(s, rep)
    \/ \E s \in Slots : Deliver(s)

Spec == Init /\ [][Next]_vars

TypeOK ==
    /\ proc \in {"main", "returned", "lifespan", "serving"}
    /\ bedrock_client \in 0..constructed
    /\ running \in {0} \cup Slots
    /\ \A s \in Slots : pc[s] \in {"free", "queued", "calling", "done"}
    /\ \A s \in Slots : (pc[s] \in {"calling", "done"}) = (running = s)
    /\ sent \subseteq {200, 500, 502}

(* ------------------------------- claims -------------------------------- *)

ChatDone(s) == pc[s] = "done" /\ kind[s] = "chat"

\* A reply of the expected shape carrying the text t.
ValidReply(t) ==
    [kind |-> "body",
     body |-> BodyWithContent(JList(<<JDict([text |-> JStr(t)])>>))]

ReplyTexts == {"d"}

IsValidReply(rep) == \E t \in ReplyTexts : rep = ValidReply(t)

\* C1: a chat request with message m and history H of length N whose
\* provider reply is valid with text t is answered 200 with success true,
\* response t and a history of length N+2: H, then the user turn m, then
\* the assistant turn t.
C1_SuccessHistory ==
    \A s \in Slots : \A t \in ReplyTexts :
        (ChatDone(s) /\ reply[s] = ValidReply(t)) =>
            LET H == body[s].conversationHistory
                N == Len(H)
                out == resp[s].body
            IN  /\ resp[s].status = 200
                /\ out.success = TRUE
                /\ out.response = t
                /\ Len(out.conversationHistory) = N + 2
                /\ \A i \in 1..N : out.conversationHistory[i] = H[i]
                /\ out.conversationHistory[N + 1] =
                       [role |-> "user", content |-> body[s].message]
                /\ out.conversationHistory[N + 2] =
                       [role |-> "assistant", content |-> t]
                /\ messages[s] = out.conversationHistory

C1_Witness ==
    \E s \in Slots :
        /\ ChatDone(s)
        /\ IsValidReply(reply[s])
        /\ Len(body[s].conversationHistory) = 2
        /\ body[s].conversationHistory[1].role = "user"
        /\ body[s].conversationHistory[2].role = "assistant"
        /\ resp[s].status = 200

\* C2: whatever error the provider call raises, chat answers 502 with a
\* non-empty detail that carries the error's description.
C2_AnyErrorIs502 ==
    \A s \in Slots :
        (ChatDone(s) /\ reply[s].kind \notin {"none", "body"}) =>
            /\ resp[s].status = 502
            /\ "detail" \in DOMAIN resp[s].body
            /\ resp[s].body.detail # ""
            /\ resp[s].body.detail =
                   "Bedrock invocation failed: " \o reply[s].desc

\* C3: a decoded provider body that deviates in any way from the expected
\* shape is answered 502 with the detail "Invalid response from model".
C3_AnyDeviationIsInvalid ==
    \A s \in Slots :
        (ChatDone(s) /\ reply[s].kind = "body" /\ ~IsValidReply(reply[s])) =>
            resp[s] = HTTPException(502, "Invalid response from model")

\* C4: run as a script, the process has started the HTTP listener once
\* run_with_ngrok is past the tunnel step, also when the token is absent.
C4_ListenerStarted ==
    (entry = "main" /\ proc # "main") => listening

\* C5: every /health answer is 200 with status "ok" and with model null
\* while the client handle is unset and MODEL_ID otherwise; after a /health
\* answer with MODEL_ID every later /health answer carries MODEL_ID.
C5_Health ==
    [][\A s \in Slots :
          (pc[s] = "queued" /\ kind[s] = "health" /\ pc'[s] = "done") =>
              /\ resp'[s].status = 200
              /\ resp'[s].body.status = "ok"
              /\ resp'[s].body.model =
                     IF bedrock_client = NoClient THEN PyNone ELSE MODEL_ID
              /\ lastHealth' = resp'[s].body.model
              /\ (lastHealth = MODEL_ID => resp'[s].body.model = MODEL_ID)]_vars

C5_Witness ==
    /\ lastHealth = MODEL_ID
    /\ {500, 502} \subseteq sent
    /\ \E s, r \in Slots :
          /\ pc[s] = "done" /\ kind[s] = "health"
          /\ resp[s].body.model = MODEL_ID
          /\ pc[r] = "queued" /\ kind[r] = "chat"

\* Provider bodies answered with the fixed 502.
InvalidBodies ==
    { BodyWithContent(JList(<<JDict([text |-> JStr("")])>>)),
      BodyWithContent(JList(<<EmptyDict>>)),
      BodyWithContent(JList(<<>>)),
      BodyWithContent(JStr("d")),
      JDict([output |-> JDict([message |-> EmptyDict])]),
      JDict([output |-> EmptyDict]),
      EmptyDict }

\* The one response a chat request with body b and provider outcome rep
\* can get; rep is NoReply when the provider was not called.
ExpectedResponse(b, rep) ==
    LET H == b.conversationHistory
        user == [role |-> "user", content |-> b.message]
    IN  IF rep = NoReply \/ rep.kind \in {"EndpointConnectionError",
                                          "JSONDecodeError"}
        THEN [status |-> 500, body |-> [text |-> "Internal Server Error"]]
        ELSE IF rep.kind = "ClientError"
        THEN [status |-> 502,
              body |-> [detail |-> "Bedrock invocation failed: "
                                       \o rep.desc]]
        ELSE IF rep = ValidReply("d")
        THEN [status |-> 200,
              body |-> [success |-> TRUE,
                        response |-> "d",
                        conversationHistory |->
                            H \o <<user, [role |-> "assistant",
                                          content |-> "d"]>>]]
        ELSE IF rep.body \in InvalidBodies
        THEN [status |-> 502,
              body |-> [detail |-> "Invalid response from model"]]
        ELSE [status |-> 500, body |-> [text |-> "Internal Server Error"]]

\* C6: the response of a chat request is fixed by its own message, its own
\* history and the provider's outcome for its own call: in every state the
\* server can reach, whatever requests it has handled before and whatever
\* requests wait on other connections, the response is the same function
\* of these three; and the provider is called exactly when every entry of
\* the request's own history has a role and a content.
C6_Independent ==
    \A s \in Slots :
        ChatDone(s) =>
            /\ resp[s] = ExpectedResponse(body[s], reply[s])
            /\ (reply[s] = NoReply) =
                   (\E i \in 1..Len(body[s].conversationHistory) :
                       ~({"role", "content"} \subseteq
                             DOMAIN body[s].conversationHistory[i]))

C6_Witness ==
    \E r, s \in Slots :
        /\ ChatDone(s)
        /\ resp[s].status = 200
        /\ Len(body[s].conversationHistory) = 2
        /\ {200, 500, 502} \subseteq sent
        /\ lastHealth = PyNone
        /\ pc[r] = "queued"

\* C7: while one chat request waits for the provider, any other request
\* that has arrived can be handled.
C7_OthersProgress ==
    \A r, s \in Slots :
        (pc[r] = "calling" /\ pc[s] = "queued") =>
            ENABLED (Health(s) \/ \E b \in ChatRequest : ChatBegin(s, b))

\* C8: the client handle is constructed at most once, stays set to that
\* handle once it is set, and every provider call uses it.
C8_SingleHandle ==
    /\ constructed <= 1
    /\ (constructed = 0) = (bedrock_client = NoClient)
    /\ \A s \in Slots : \A i \in 1..Len(invoked[s]) :
          invoked[s][i] # NoClient /\ invoked[s][i] = bedrock_client

C8_Witness ==
    \E r, s \in Slots :
        /\ pc[s] = "calling" /\ Len(invoked[s]) = 1
        /\ pc[r] = "queued" /\ kind[r] = "chat"
        /\ {200, 502} \subseteq sent
        /\ lastHealth = PyNone
        /\ constructed = 1

\* C9: a chat request calls the provider at most once, and a request whose
\* call failed or returned an invalid body has ended with an error response
\* after that one call.
C9_NoRetry ==
    \A s \in Slots :
        /\ Len(invoked[s]) <= 1
        /\ (pc[s] = "calling" => Len(invoked[s]) = 1 /\ reply[s] = NoReply)
        /\ (ChatDone(s) /\ reply[s] # NoReply /\ ~IsValidReply(reply[s])) =>
               (resp[s].status # 200 /\ Len(invoked[s]) = 1)

C9_Witness ==
    \E s \in Slots :
        /\ ChatDone(s) /\ reply[s].kind = "ClientError"
        /\ resp[s].status = 502 /\ Len(invoked[s]) = 1
        /\ {500, 502} \subseteq sent

\* C10: the payload given to the provider for history H of length N and
\* message m has N+1 messages in conversation order, each with its role
\* kept and its text wrapped as [{text: ...}], the last one the user turn
\* m, and the fixed inference configuration.
C10_Payload ==
    \A s \in Slots :
        (payload[s] # NoPayload) =>
            LET H == body[s].conversationHistory
                N == Len(H)
                p == payload[s]
            IN  /\ Len(p.messages) = N + 1
                /\ \A i \in 1..N :
                      /\ p.messages[i].role = H[i].role
                      /\ p.messages[i].content = <<[text |-> H[i].content]>>
                /\ p.messages[N + 1] =
                       [role |-> "user",
                        content |-> <<[text |-> body[s].message]>>]
                /\ p.inferenceConfig.maxTokens = 512
                /\ p.inferenceConfig.stopSequences = <<>>
                /\ p.inferenceConfig.temperature = [num |-> 7, den |-> 10]
                /\ p.inferenceConfig.topP = [num |-> 9, den |-> 10]

C10_Witness ==
    \E s \in Slots :
        /\ pc[s] = "calling"
        /\ Len(body[s].conversationHistory) = 2
        /\ body[s].conversationHistory[1].role = "assistant"
        /\ Len(payload[s].messages) = 3
=============================================================================
